---- MODULE Spec2Model ----
\* Model of the mdl-sdk Conan recipe (src/all/conanfile.py, class MdlConan):
\* validate, export_sources, build (_copy_sources, _patch_sources,
\* _configure_cmake, cmake.build) and package.
EXTENDS Integers, Sequences, FiniteSets, TLC

VARIABLES
    os,               \* settings.os
    compiler,         \* settings.compiler
    compiler_version, \* settings.compiler.version
    build_type,       \* settings.build_type
    runtime_flag,     \* value msvc_runtime_flag(self) returns for these settings
    fPIC,             \* options.fPIC
    validate_result,  \* "pending", "ok", or the message of the error raised
    conan_data,       \* conandata.yml as the recipe reads it: the "patches" part
    source_folder,    \* files under self.source_folder (exported + fetched)
    build_folder,     \* files under the build folder (cwd of build())
    reads,            \* paths of source_folder that _copy_sources opened
    pc,               \* position of the driver / of build()
    idx,              \* position of the loop of _patch_sources
    log,              \* the steps of build() started so far, with their outcome
    applied,          \* patches applied to the staged source tree, in order
    definitions,      \* cmake.definitions handed to cmake.configure
    error,            \* "none" or the exception that ended the run
    missing,          \* path a copy did not find ("" if none)
    build_tree,       \* files under build_folder/build_subfolder
    package_folder    \* files package() placed, as [dir, name]

settings == <<os, compiler, compiler_version, build_type, runtime_flag, fPIC>>
buildvars == <<conan_data, source_folder, build_folder, reads, pc, idx, log,
               applied, definitions, error, missing>>
pkgvars == <<build_tree, package_folder>>
vars == <<settings, validate_result, buildvars, pkgvars>>

\* ---------------------------------------------------------------- inputs
OSValues == {"Windows", "Linux", "Macos", "Android", "iOS", "FreeBSD", "SunOS"}
CompilerValues == {"Visual Studio", "msvc", "gcc", "clang"}
BuildTypeValues == {"Debug", "RelWithDebInfo", "Release", "MinSizeRel", "None"}
RuntimeFlags == {"MD", "MT", "MDd", "MTd"}

CompilerVersions(c) ==
    IF c = "Visual Studio" THEN {8, 9, 16}
    ELSE IF c = "msvc" THEN {190, 193}
    ELSE {9, 11}

\* msvc_runtime_flag yields "" for a compiler that is not MSVC-family
RuntimeFlagsOf(c) ==
    IF c \in {"Visual Studio", "msvc"} THEN RuntimeFlags \cup {""} ELSE {""}

\* ---------------------------------------------------------------- validate
SupportedOS_WithFreeBSD == {"Windows", "Linux", "Macos", "Android", "iOS", "FreeBSD"}

SupportedOS == {"Windows", "Linux", "Macos", "Android", "iOS"}

SupportedBuildTypes_WithMinSizeRel == {"Debug", "RelWithDebInfo", "Release", "MinSizeRel"}

SupportedBuildTypes == {"Debug", "RelWithDebInfo", "Release"}

MinVisualStudioVersion == 9

_is_msvc(c) == c \in {"Visual Studio", "msvc"}

allowed_runtimes_Release(bt) == {"MD", "MT"}

allowed_runtimes(bt) == IF bt = "Debug" THEN {"MDd", "MTd"} ELSE {"MD", "MT"}

MsgOs == "Current os is not supported"
MsgBuildType == "Current build_type is not supported"
MsgVersion == "Visual Studio versions < 9 are not supported"
MsgRuntime == "Visual Studio runtime is required for build type"

validate_outcome(o, c, v, bt, rt) ==
    IF o \notin SupportedOS THEN MsgOs
    ELSE IF bt \notin SupportedBuildTypes THEN MsgBuildType
    ELSE IF c = "Visual Studio" /\ v < MinVisualStudioVersion THEN MsgVersion
    ELSE IF _is_msvc(c) /\ rt \notin allowed_runtimes(bt) THEN MsgRuntime
    ELSE "ok"

NoDefinitions == [k \in {} |-> ""]

NoPatches == [has_patches |-> FALSE, has_version |-> FALSE, patches |-> <<>>]

\* the variables a specification does not use
IdleBuild ==
    /\ conan_data = NoPatches
    /\ source_folder = {}
    /\ build_folder = {}
    /\ reads = {}
    /\ idx = 1
    /\ log = <<>>
    /\ applied = <<>>
    /\ definitions = NoDefinitions
    /\ error = "none"
    /\ missing = ""

IdlePackage ==
    /\ build_tree = {}
    /\ package_folder = {}

InitValidate ==
    /\ IdleBuild
    /\ pc = "validate"
    /\ IdlePackage
    /\ os \in OSValues
    /\ compiler \in CompilerValues
    /\ compiler_version \in CompilerVersions(compiler)
    /\ build_type \in BuildTypeValues
    /\ runtime_flag \in RuntimeFlagsOf(compiler)
    /\ fPIC \in BOOLEAN
    /\ validate_result = "pending"

validate ==
    /\ pc = "validate"
    /\ validate_result = "pending"
    /\ validate_result' = validate_outcome(os, compiler, compiler_version,
                                           build_type, runtime_flag)
    /\ UNCHANGED <<settings, buildvars, pkgvars>>

NextValidate == validate

SpecValidate == InitValidate /\ [][NextValidate]_vars

InvalidConfiguration == {MsgOs, MsgBuildType, MsgVersion, MsgRuntime}

\* C1: for an MSVC-family compiler with a supported os, build type and compiler
\* version, validate succeeds iff the runtime flag is MDd or MTd for Debug and
\* MD or MT for Release and RelWithDebInfo; otherwise it raises
\* ConanInvalidConfiguration.
C1_MsvcRuntimeIff ==
    (/\ validate_result # "pending"
     /\ compiler \in {"Visual Studio", "msvc"}
     /\ os \in {"Windows", "Linux", "Macos", "Android", "iOS"}
     /\ build_type \in {"Debug", "RelWithDebInfo", "Release"}
     /\ ~(compiler = "Visual Studio" /\ compiler_version < 9))
    => /\ validate_result \in InvalidConfiguration \cup {"ok"}
       /\ validate_result = "ok" <=>
             IF build_type = "Debug" THEN runtime_flag \in {"MDd", "MTd"}
             ELSE runtime_flag \in {"MD", "MT"}

C1_Witness ==
    /\ validate_result = MsgRuntime
    /\ compiler = "msvc"
    /\ build_type = "Debug"
    /\ runtime_flag = "MD"

\* C2: for a build type outside Debug, RelWithDebInfo, Release, validate raises
\* ConanInvalidConfiguration whatever the other settings are.
C2_UnsupportedBuildTypeFails ==
    (/\ validate_result # "pending"
     /\ build_type \notin {"Debug", "RelWithDebInfo", "Release"})
    => validate_result \in InvalidConfiguration

C2_Witness ==
    /\ validate_result = MsgBuildType
    /\ build_type = "MinSizeRel"
    /\ os = "Linux"

\* C3: for an os outside Windows, Linux, Macos, Android, iOS validate fails
\* whatever the other settings are; for an os inside the set the os check is
\* never the failure, and validate succeeds when the other settings are valid.
C3_UnsupportedOsFails ==
    validate_result # "pending" =>
      /\ os \notin {"Windows", "Linux", "Macos", "Android", "iOS"}
            => validate_result \in InvalidConfiguration
      /\ os \in {"Windows", "Linux", "Macos", "Android", "iOS"}
            => /\ validate_result # MsgOs
               /\ (build_type \in {"Debug", "RelWithDebInfo", "Release"}
                   /\ compiler \in {"gcc", "clang"}) => validate_result = "ok"

C3_Witness ==
    /\ validate_result = MsgOs
    /\ os = "FreeBSD"
    /\ build_type = "Release"

\* ---------------------------------------------------------------- build
MaxPatches == 2

PatchFiles == {"patches/0001.patch", "patches/0002.patch"}

SeqsUpTo(S, n) == UNION {[1..k -> S] : k \in 0..n}

\* conandata.yml: no "patches" key, a "patches" key without this version, or a
\* list of patch descriptors for this version
ConanDataValues ==
    {NoPatches}
    \cup {[has_patches |-> TRUE, has_version |-> FALSE, patches |-> <<>>]}
    \cup {[has_patches |-> TRUE, has_version |-> TRUE, patches |-> l] :
             l \in SeqsUpTo(PatchFiles, MaxPatches)}

\* self.conan_data.get("patches", {}).get(self.version, [])
patches_get(cd) ==
    IF cd.has_patches /\ cd.has_version THEN cd.patches ELSE <<>>

Range(f) == {f[i] : i \in DOMAIN f}

\* the files export_sources copies from the recipe folder
export_sources_files(cd) ==
    {"CMakeLists.txt",
     "externals/clang/windows/clang.exe",
     "externals/clang/linux/clang"}
    \cup Range(patches_get(cd))

\* what tools.get leaves under source_folder/source_subfolder
SourceTree ==
    {"source_subfolder/cmake", "source_subfolder/examples",
     "source_subfolder/include", "source_subfolder/src",
     "source_subfolder/CMakeLists.txt"}

\* the helper binary _copy_sources copies: [src, dst]
helper_binary(o) ==
    IF o = "Windows"
    THEN [src |-> "externals/clang/windows/clang.exe", dst |-> "externals/clang/clang.exe"]
    ELSE IF o = "Linux"
    THEN [src |-> "externals/clang/linux/clang.exe", dst |-> "externals/clang/clang"]
    ELSE [src |-> "externals/clang/linux/clang.exe", dst |-> "externals/clang/clang"]

\* the copies of _copy_sources in the order the code makes them; a patch file
\* keeps its relative name ("patches/<name>") when copied into "patches"
copy_plan(o, cd) ==
    <<[src |-> "CMakeLists.txt", dst |-> "CMakeLists.txt"]>>
    \o [i \in 1..Len(patches_get(cd)) |->
          [src |-> patches_get(cd)[i], dst |-> patches_get(cd)[i]]]
    \o <<helper_binary(o)>>
    \o <<[src |-> "source_subfolder/cmake", dst |-> "source_subfolder/cmake"],
         [src |-> "source_subfolder/examples", dst |-> "source_subfolder/examples"],
         [src |-> "source_subfolder/include", dst |-> "source_subfolder/include"],
         [src |-> "source_subfolder/src", dst |-> "source_subfolder/src"],
         [src |-> "source_subfolder/CMakeLists.txt",
          dst |-> "source_subfolder/CMakeLists.txt"]>>

\* index of the first copy whose source is absent, 0 if every source is there
first_missing(plan, folder) ==
    IF \A i \in 1..Len(plan) : plan[i].src \in folder THEN 0
    ELSE CHOOSE i \in 1..Len(plan) :
           /\ plan[i].src \notin folder
           /\ \A j \in 1..(i - 1) : plan[j].src \in folder

\* an exception raised by a step propagates out of build(): nothing follows
after_step_swallowed(ok, nxt) == nxt

after_step(ok, nxt) == IF ok THEN nxt ELSE "failed"

Step(name, arg, ok) == [step |-> name, arg |-> arg, ok |-> ok]

InitSettingsValid ==
    /\ os \in OSValues
    /\ compiler \in CompilerValues
    /\ compiler_version \in CompilerVersions(compiler)
    /\ build_type \in BuildTypeValues
    /\ runtime_flag \in RuntimeFlagsOf(compiler)
    /\ fPIC \in BOOLEAN
    /\ validate_outcome(os, compiler, compiler_version, build_type, runtime_flag) = "ok"
    /\ validate_result = "ok"

InitBuild ==
    /\ InitSettingsValid
    /\ IdlePackage
    /\ conan_data \in ConanDataValues
    /\ source_folder = {}
    /\ build_folder = {}
    /\ reads = {}
    /\ pc = "export_sources"
    /\ idx = 1
    /\ log = <<>>
    /\ applied = <<>>
    /\ definitions = NoDefinitions
    /\ error = "none"
    /\ missing = ""

export_sources ==
    /\ pc = "export_sources"
    /\ source_folder' = source_folder \cup export_sources_files(conan_data)
    /\ pc' = "source"
    /\ UNCHANGED <<settings, validate_result, pkgvars, conan_data, build_folder,
                   reads, idx, log, applied, definitions, error, missing>>

\* tools.get either populates source_subfolder or raises
source ==
    /\ pc = "source"
    /\ \E ok \in BOOLEAN :
         /\ source_folder' = IF ok THEN source_folder \cup SourceTree ELSE source_folder
         /\ pc' = IF ok THEN "copy_sources" ELSE "failed"
         /\ error' = IF ok THEN error ELSE "ExternalToolFailure"
    /\ UNCHANGED <<settings, validate_result, pkgvars, conan_data, build_folder,
                   reads, idx, log, applied, definitions, missing>>

_copy_sources ==
    /\ pc = "copy_sources"
    /\ LET plan == copy_plan(os, conan_data)
           m == first_missing(plan, source_folder)
           done == IF m = 0 THEN Len(plan) ELSE m - 1
       IN /\ reads' = {plan[i].src : i \in 1..(IF m = 0 THEN Len(plan) ELSE m)}
          /\ build_folder' = build_folder \cup {plan[i].dst : i \in 1..done}
          /\ missing' = IF m = 0 THEN "" ELSE plan[m].src
          /\ error' = IF m = 0 THEN error ELSE "FileNotFoundError"
          /\ log' = Append(log, Step("copy_sources", "", m = 0))
          /\ pc' = after_step(m = 0, "patch_sources")
    /\ UNCHANGED <<settings, validate_result, pkgvars, conan_data, source_folder,
                   idx, applied, definitions>>

\* _patch_sources: self.conan_data["patches"][self.version], then tools.patch
\* for each descriptor in list order; tools.patch either applies or raises
_patch_sources ==
    /\ pc = "patch_sources"
    /\ \/ /\ ~(conan_data.has_patches /\ conan_data.has_version)
          /\ error' = "KeyError"
          /\ pc' = after_step(FALSE, "configure_cmake")
          /\ UNCHANGED <<idx, log, applied>>
       \/ /\ conan_data.has_patches /\ conan_data.has_version
          /\ idx > Len(conan_data.patches)
          /\ pc' = "configure_cmake"
          /\ UNCHANGED <<idx, log, applied, error>>
       \/ /\ conan_data.has_patches /\ conan_data.has_version
          /\ idx <= Len(conan_data.patches)
          /\ \E ok \in BOOLEAN :
               /\ log' = Append(log, Step("patch", conan_data.patches[idx], ok))
               /\ applied' = IF ok THEN Append(applied, conan_data.patches[idx])
                             ELSE applied
               /\ error' = IF ok THEN error ELSE "ExternalToolFailure"
               /\ pc' = after_step(ok, "patch_sources")
               /\ idx' = IF ok THEN idx + 1 ELSE idx
    /\ UNCHANGED <<settings, validate_result, pkgvars, conan_data, source_folder,
                   build_folder, reads, definitions, missing>>

BoolStr(b) == IF b THEN "True" ELSE "False"

_get_target_build_platform(o) ==
    IF o = "Windows" THEN "windows"
    ELSE IF o = "Linux" THEN "linux"
    ELSE IF o = "Macos" THEN "mac"
    ELSE IF o = "Android" THEN "android"
    ELSE IF o = "iOS" THEN "ios"
    ELSE "None"

\* the toolchain executable, relative to build_folder
clang_PATH_NoExe(o) == "externals/clang/clang"

clang_PATH(o) ==
    IF o = "Windows" THEN "externals/clang/clang.exe" ELSE "externals/clang/clang"

\* self.options.get_safe("fPIC", False): no code removes the option, so it is
\* always present
get_safe_fPIC(o, pic) == pic

\* cmake.definitions as _configure_cmake fills it; folders relative to build_folder
cmake_definitions(o, bt, pic) ==
    ("CMAKE_BUILD_TYPE" :> bt)
    @@ ("CMAKE_POSITION_INDEPENDENT_CODE" :> BoolStr(get_safe_fPIC(o, pic)))
    @@ ("MDL_BASE_FOLDER" :> "source_subfolder")
    @@ ("MDL_INCLUDE_FOLDER" :> "source_subfolder/include")
    @@ ("MDL_SRC_FOLDER" :> "source_subfolder/src")
    @@ ("MDL_EXAMPLES_FOLDER" :> "source_subfolder/examples")
    @@ ("MDL_BUILD_SDK_EXAMPLES" :> "False")
    @@ ("MDL_ENABLE_CUDA_EXAMPLES" :> "False")
    @@ ("MDL_ENABLE_OPENGL_EXAMPLES" :> "False")
    @@ ("MDL_ENABLE_QT_EXAMPLES" :> "False")
    @@ ("MDL_ENABLE_D3D12_EXAMPLES" :> "False")
    @@ ("clang_PATH" :> clang_PATH(o))
    @@ ("FREEIMAGE_DIR" :> "freeimage/package_folder")

\* fills cmake.definitions, then cmake.configure either succeeds or raises
_configure_cmake ==
    /\ pc = "configure_cmake"
    /\ definitions' = cmake_definitions(os, build_type, fPIC)
    /\ \E ok \in BOOLEAN :
         /\ log' = Append(log, Step("configure", "", ok))
         /\ error' = IF ok THEN error ELSE "ExternalToolFailure"
         /\ pc' = after_step(ok, "cmake_build")
    /\ UNCHANGED <<settings, validate_result, pkgvars, conan_data, source_folder,
                   build_folder, reads, idx, applied, missing>>

cmake_build ==
    /\ pc = "cmake_build"
    /\ \E ok \in BOOLEAN :
         /\ log' = Append(log, Step("build", "", ok))
         /\ error' = IF ok THEN error ELSE "ExternalToolFailure"
         /\ pc' = after_step(ok, "done")
    /\ UNCHANGED <<settings, validate_result, pkgvars, conan_data, source_folder,
                   build_folder, reads, idx, applied, definitions, missing>>

NextBuild ==
    \/ export_sources
    \/ source
    \/ _copy_sources
    \/ _patch_sources
    \/ _configure_cmake
    \/ cmake_build

SpecBuild == InitBuild /\ [][NextBuild]_vars

\* the configure step on its own, entered with any valid configuration
InitConfigure ==
    /\ InitSettingsValid
    /\ IdlePackage
    /\ IdleBuild
    /\ pc = "configure_cmake"

NextConfigure ==
    \/ _configure_cmake
    \/ cmake_build

SpecConfigure == InitConfigure /\ [][NextConfigure]_vars

Configured == definitions # NoDefinitions

DefinitionValues == {definitions[k] : k \in DOMAIN definitions}

CopyRan == Len(log) >= 1

CopySucceeded == Len(log) >= 1 /\ log[1].ok

\* C6: when the version has an empty patch list, or none declared, the patch
\* step completes without error and leaves the staged tree as copied.
C6_EmptyPatchListIsNoOp ==
    (/\ CopySucceeded
     /\ pc # "patch_sources"
     /\ ~(conan_data.has_patches /\ conan_data.has_version
          /\ conan_data.patches # <<>>))
    => /\ error # "KeyError"
       /\ applied = <<>>

\* the steps build() takes when none fails
ExpectedSteps ==
    <<[step |-> "copy_sources", arg |-> ""]>>
    \o [i \in 1..Len(conan_data.patches) |->
          [step |-> "patch", arg |-> conan_data.patches[i]]]
    \o <<[step |-> "configure", arg |-> ""], [step |-> "build", arg |-> ""]>>

\* C7: the steps of build() are copy-sources, each declared patch in list
\* order, one configure, one build; a step starts only after every earlier one
\* succeeded, a failed step ends the run and is not retried.
C7_BuildOrder ==
    /\ Len(log) <= Len(ExpectedSteps)
    /\ \A i \in 1..Len(log) :
         /\ log[i].step = ExpectedSteps[i].step
         /\ log[i].arg = ExpectedSteps[i].arg
    /\ \A i \in 1..(Len(log) - 1) : log[i].ok
    /\ (Len(log) >= 1 /\ ~log[Len(log)].ok) => pc = "failed"
    /\ applied = [i \in 1..Len(applied) |-> conan_data.patches[i]]
    /\ pc = "done" =>
         /\ Len(log) = Len(ExpectedSteps)
         /\ \A i \in 1..Len(log) : log[i].ok
         /\ applied = conan_data.patches

C7_Witness ==
    /\ pc = "done"
    /\ conan_data.patches = <<"patches/0002.patch", "patches/0001.patch">>

\* C8: source staging reads externals/clang/windows/clang.exe on Windows and
\* externals/clang/linux/clang on every other supported os, and stages it at
\* the path the configure step passes as clang_PATH.
C8_HelperBinaryStaged ==
    CopyRan =>
      /\ (IF os = "Windows" THEN "externals/clang/windows/clang.exe"
          ELSE "externals/clang/linux/clang") \in reads
      /\ (IF os = "Windows" THEN "externals/clang/clang.exe"
          ELSE "externals/clang/clang") \in build_folder

\* C9: for os = "Windows" the value of the fPIC option does not reach the
\* definitions handed to the build tool.
C9_NoFPICOnWindows ==
    (Configured /\ os = "Windows") =>
       \/ "CMAKE_POSITION_INDEPENDENT_CODE" \notin DOMAIN definitions
       \/ definitions["CMAKE_POSITION_INDEPENDENT_CODE"] = "False"

\* C10: every file source staging reads from the exported sources is a file
\* export_sources put there, so the build does not fail on a missing one.
C10_StagingReadsExported ==
    CopyRan =>
      /\ \A p \in reads : p \notin SourceTree => p \in source_folder
      /\ error # "FileNotFoundError"

\* ---------------------------------------------------------------- package
\* file names are sequences of characters, relative to the folder copied from
F_foo_so == <<"f", "o", "o", ".", "s", "o">>
F_bar_dll == <<"b", "a", "r", ".", "d", "l", "l">>
F_m_a == <<"m", ".", "a">>
F_m_lib == <<"m", ".", "l", "i", "b">>
F_m_dylib == <<"m", ".", "d", "y", "l", "i", "b">>
F_m_dylib_1 == <<"m", ".", "d", "y", "l", "i", "b", ".", "1">>
F_m_so_1 == <<"m", ".", "s", "o", ".", "1">>
F_m_exe == <<"m", ".", "e", "x", "e">>
F_m_h == <<"m", ".", "h">>
F_so == <<"s", "o">>
F_d_n_so == <<"d", "/", "n", ".", "s", "o">>
F_m_dll_a == <<"m", ".", "d", "l", "l", ".", "a">>

BuildTreeFiles ==
    {F_foo_so,
     F_bar_dll,
     F_m_a,
     F_m_lib,
     F_m_dylib,
     F_m_dylib_1,
     F_m_so_1,
     F_m_exe,
     F_m_h,
     F_so,
     F_d_n_so,
     F_m_dll_a}

\* files of build_folder/source_subfolder and of its include folder
F_LICENSE_md == <<"L", "I", "C", "E", "N", "S", "E", ".", "m", "d">>
F_README_md == <<"R", "E", "A", "D", "M", "E", ".", "m", "d">>
F_mi_mdl_h == <<"m", "i", "/", "m", "d", "l", ".", "h">>
F_mi_doc_txt == <<"m", "i", "/", "d", "o", "c", ".", "t", "x", "t">>

SourceSubfolderFiles == {F_LICENSE_md, F_README_md}

IncludeFiles == {F_mi_mdl_h, F_mi_doc_txt}

\* the glob match self.copy applies to a relative file name
RECURSIVE fnmatch(_, _)
fnmatch(name, pat) ==
    IF pat = <<>> THEN name = <<>>
    ELSE IF Head(pat) = "*"
         THEN \/ fnmatch(name, Tail(pat))
              \/ (name # <<>> /\ fnmatch(Tail(name), pat))
    ELSE /\ name # <<>>
         /\ Head(name) = Head(pat)
         /\ fnmatch(Tail(name), Tail(pat))

\* keep_path=False drops the folders of the name
RECURSIVE Basename(_)
Basename(name) ==
    IF \E i \in 1..Len(name) : name[i] = "/"
    THEN Basename(Tail(name))
    ELSE name

package_copies_SoToBin ==
    <<[pattern |-> <<"L", "I", "C", "E", "N", "S", "E", ".", "m", "d">>, dst |-> "licenses", src |-> "source_subfolder", keep_path |-> FALSE],
      [pattern |-> <<"*", ".", "h">>, dst |-> "include", src |-> "source_subfolder/include", keep_path |-> TRUE],
      [pattern |-> <<"*", ".", "a">>, dst |-> "lib", src |-> "build_subfolder", keep_path |-> FALSE],
      [pattern |-> <<"*", ".", "l", "i", "b">>, dst |-> "lib", src |-> "build_subfolder", keep_path |-> FALSE],
      [pattern |-> <<"*", ".", "d", "y", "l", "i", "b", "*">>, dst |-> "lib", src |-> "build_subfolder", keep_path |-> FALSE],
      [pattern |-> <<"*", ".", "d", "l", "l">>, dst |-> "bin", src |-> "build_subfolder", keep_path |-> FALSE],
      [pattern |-> <<"*", ".", "s", "o">>, dst |-> "bin", src |-> "build_subfolder", keep_path |-> FALSE]>>

package_copies ==
    <<[pattern |-> <<"L", "I", "C", "E", "N", "S", "E", ".", "m", "d">>, dst |-> "licenses", src |-> "source_subfolder", keep_path |-> FALSE],
      [pattern |-> <<"*", ".", "h">>, dst |-> "include", src |-> "source_subfolder/include", keep_path |-> TRUE],
      [pattern |-> <<"*", ".", "a">>, dst |-> "lib", src |-> "build_subfolder", keep_path |-> FALSE],
      [pattern |-> <<"*", ".", "l", "i", "b">>, dst |-> "lib", src |-> "build_subfolder", keep_path |-> FALSE],
      [pattern |-> <<"*", ".", "d", "y", "l", "i", "b", "*">>, dst |-> "lib", src |-> "build_subfolder", keep_path |-> FALSE],
      [pattern |-> <<"*", ".", "d", "l", "l">>, dst |-> "bin", src |-> "build_subfolder", keep_path |-> FALSE],
      [pattern |-> <<"*", ".", "s", "o">>, dst |-> "lib", src |-> "build_subfolder", keep_path |-> FALSE]>>

files_under(src, tree) ==
    IF src = "source_subfolder" THEN SourceSubfolderFiles
    ELSE IF src = "source_subfolder/include" THEN IncludeFiles
    ELSE tree

\* what one self.copy places
copied(c, tree) ==
    {[dir |-> c.dst, name |-> IF c.keep_path THEN f ELSE Basename(f)] :
        f \in {g \in files_under(c.src, tree) : fnmatch(g, c.pattern)}}

InitPackage ==
    /\ InitSettingsValid
    /\ os = "Linux" /\ compiler = "gcc" /\ compiler_version = 11
    /\ build_type = "Release" /\ ~fPIC
    /\ IdleBuild
    /\ pc = "package"
    /\ build_tree \in SUBSET BuildTreeFiles
    /\ package_folder = {}

package ==
    /\ pc = "package"
    /\ package_folder' =
         UNION {copied(package_copies[i], build_tree) : i \in 1..Len(package_copies)}
    /\ pc' = "packaged"
    /\ UNCHANGED <<settings, validate_result, build_tree, conan_data,
                   source_folder, build_folder, reads, idx, log, applied,
                   definitions, error, missing>>

NextPackage == package

SpecPackage == InitPackage /\ [][NextPackage]_vars

Packaged == pc = "packaged"

PlacedUnder(d) == {e.name : e \in {x \in package_folder : x.dir = d}}

EndsWith(name, suffix) ==
    /\ Len(name) >= Len(suffix)
    /\ SubSeq(name, Len(name) - Len(suffix) + 1, Len(name)) = suffix

Contains(name, part) ==
    \E i \in 1..(Len(name) - Len(part) + 1) :
        SubSeq(name, i, i + Len(part) - 1) = part

\* C5: package() places a file of the build tree under lib/ exactly when its
\* name ends in .a, .lib or .so or contains .dylib, under bin/ exactly when it
\* ends in .dll, and nothing else under either; a tree of foo.so and bar.dll
\* gives lib/foo.so and bin/bar.dll only.
C5_LibAndBinByExtension ==
    Packaged =>
      /\ PlacedUnder("lib") =
           {Basename(f) : f \in {g \in build_tree :
              \/ EndsWith(g, <<".", "a">>)
              \/ EndsWith(g, <<".", "l", "i", "b">>)
              \/ Contains(g, <<".", "d", "y", "l", "i", "b">>)
              \/ EndsWith(g, <<".", "s", "o">>)}}
      /\ PlacedUnder("bin") =
           {Basename(f) : f \in {g \in build_tree :
              EndsWith(g, <<".", "d", "l", "l">>)}}
      /\ build_tree = {F_foo_so, F_bar_dll} =>
           /\ PlacedUnder("lib") = {F_foo_so}
           /\ PlacedUnder("bin") = {F_bar_dll}

C5_Witness ==
    /\ Packaged
    /\ build_tree = {F_foo_so, F_bar_dll}
    /\ [dir |-> "lib", name |-> F_foo_so] \in package_folder
    /\ [dir |-> "bin", name |-> F_bar_dll] \in package_folder

====
